---------------------------- MODULE Spec2Model ----------------------------
(***************************************************************************)
(* A model of rekall's profile repository manager                          *)
(* (rekall/plugins/tools/repository_manager.py): the four repository       *)
(* plugins (WindowsGUIDProfile, CopyAndTransform, OSXProfile,              *)
(* LinuxProfile), the transform and index steps they share, and the        *)
(* manage_repo command that drives them from config.yaml.                  *)
(*                                                                         *)
(* Paths are sequences of one-character strings, so that the string        *)
(* operations of the code (lstrip, rstrip, startswith, endswith, split,    *)
(* the % formats) are computed as Python computes them.                    *)
(***************************************************************************)
EXTENDS Integers, Sequences, FiniteSets, TLC

(***************************************************************************)
(* Bounds of the model.                                                    *)
(***************************************************************************)
\* the longest list of GUIDs in the guid file, of sources of an OSX target
MaxList == 2
\* the latest modification time of a file present before the first Build
MaxInitTime == 2
\* the latest value of the store's clock
MaxClock == MaxInitTime + 1
\* the number of Build() calls made on one plugin instance
MaxBuilds == 2
\* the longest config.yaml, in targets
MaxTargets == 2
\* the number of render() calls made on one manage_repo command
MaxRenders == 2

(***************************************************************************)
(* Python strings.                                                         *)
(***************************************************************************)
\* None, for an attribute that holds a path (AttributeDict gives None for a
\* missing key); falsy, as None and "" both are in Python.
None == <<>>

Truthy(v) == v # None

RECURSIVE lstrip(_, _)
\* str.lstrip(chars): drops leading characters that are in the set chars
lstrip(s, chars) ==
    IF s # <<>> /\ Head(s) \in chars THEN lstrip(Tail(s), chars) ELSE s

RECURSIVE rstrip(_, _)
\* str.rstrip(chars): drops trailing characters that are in the set chars
rstrip(s, chars) ==
    IF s # <<>> /\ s[Len(s)] \in chars
    THEN rstrip(SubSeq(s, 1, Len(s) - 1), chars)
    ELSE s

\* str.startswith(prefix)
startswith(s, prefix) ==
    Len(s) >= Len(prefix) /\ SubSeq(s, 1, Len(prefix)) = prefix

\* str.endswith(suffix)
endswith(s, suffix) ==
    Len(s) >= Len(suffix)
    /\ SubSeq(s, Len(s) - Len(suffix) + 1, Len(s)) = suffix

RECURSIVE LastSegment(_)
\* s.split("/")[-1]: what follows the last "/" of s (all of s without one)
LastSegment(s) ==
    IF s = <<>> THEN <<>>
    ELSE IF s[Len(s)] = "/" THEN <<>>
    ELSE LastSegment(SubSeq(s, 1, Len(s) - 1)) \o <<s[Len(s)]>>

\* the characters of the string literal "src/"
Chars_src == {"s", "r", "c", "/"}

\* the characters of the string literal ".zip"
Chars_zip == {".", "z", "i", "p"}

Str_srcLinux == <<"s", "r", "c", "/", "L", "i", "n", "u", "x">>

Str_zip == <<".", "z", "i", "p">>

Str_srcpdb == <<"s", "r", "c", "/", "p", "d", "b", "/">>

Str_pdb == <<".", "p", "d", "b">>

Str_OSX == <<"O", "S", "X", "/">>

Str_index == <<"/", "i", "n", "d", "e", "x">>

\* "src/pdb/%s.pdb" % guid
RawPdbPath(guid) == Str_srcpdb \o guid \o Str_pdb

\* "%s/%s" % (self.args.profile_name, guid)
GuidProfilePath(profile_name, guid) == profile_name \o <<"/">> \o guid

\* "%s/index" % self.args.profile_name
IndexPath(profile_name) == profile_name \o Str_index

\* "OSX/%s" % source.split("/")[-1]
OSXProfileName(source) == Str_OSX \o LastSegment(source)

\* A mutation: every archive counts as a raw Linux profile, wherever it lies
IsRawLinuxProfileAnyZip(source_profile) == endswith(source_profile, Str_zip)

\* source_profile.startswith("src/Linux") and source_profile.endswith(".zip")
IsRawLinuxProfile(source_profile) ==
    startswith(source_profile, Str_srcLinux) /\ endswith(source_profile, Str_zip)

\* source_profile.lstrip("src/").rstrip(".zip")
LinuxProfileId(source_profile) ==
    rstrip(lstrip(source_profile, Chars_src), Chars_zip)

(***************************************************************************)
(* Documents and their stored form.                                        *)
(***************************************************************************)
\* utils.PPrint(data): the document as text
PPrint(data) == [text |-> data]

\* RepositoryManager.Encoder
Encoder(data) == PPrint(data)

\* RepositoryManager.Decoder: the document a text holds
Decoder(raw) == raw.text

\* Whether the decoders can read the payload (it is a text, not raw bytes)
Decodable(raw) == "text" \in DOMAIN raw

\* A conversion that gave nothing (Python's None, for a document)
NoProfile == [none |-> TRUE]

(***************************************************************************)
(* RepositoryPlugin.TransformProfile.  transforms maps a transform name to *)
(* its arguments; the result is the transformed profile, or the error      *)
(* raised.                                                                 *)
(***************************************************************************)
\* A mutation: a "$MERGE" the profile already has is kept
MergeKeepsExisting(profile, args) ==
    [k \in DOMAIN profile \cup {"$MERGE"} |->
        IF k = "$MERGE" /\ k \notin DOMAIN profile THEN args ELSE profile[k]]

\* profile["$MERGE"] = args
Merge(profile, args) ==
    [k \in DOMAIN profile \cup {"$MERGE"} |->
        IF k = "$MERGE" THEN args ELSE profile[k]]

\* A mutation: once merge is among the transforms the others are not looked at
TransformProfileMergeWins(profile, transforms) ==
    IF "merge" \in DOMAIN transforms
    THEN [raised |-> FALSE, profile |-> Merge(profile, transforms["merge"])]
    ELSE [raised |-> DOMAIN transforms # {}, profile |-> profile]

\* A mutation: an unrecognised transform is passed over instead of raising
TransformProfileSkipUnknown(profile, transforms) ==
    [raised |-> FALSE,
     profile |-> IF "merge" \in DOMAIN transforms
                 THEN Merge(profile, transforms["merge"])
                 ELSE profile]

TransformProfile(profile, transforms) ==
    IF \E transform \in DOMAIN transforms : transform # "merge"
    THEN [raised |-> TRUE, profile |-> profile]
    ELSE [raised |-> FALSE,
          profile |-> IF "merge" \in DOMAIN transforms
                      THEN Merge(profile, transforms["merge"])
                      ELSE profile]

(***************************************************************************)
(* The state.                                                              *)
(***************************************************************************)
VARIABLES
    store,          \* the repository: path -> [data, LastModified]
    now,            \* the clock the repository stamps writes with
    handler,        \* the plugin instance: its class and self.args
    bpc,            \* where Build() is
    error,          \* the exception that ended Build() or render()
    changed_files,  \* Build's local changed_files
    guid_list,      \* WindowsGUIDProfile.Build: the (pdb_filename, guid) pairs
    i,              \* the position in guid_list or in self.args.sources
    profile_data,   \* ParsePDB's local profile_data, once transformed
    pending,        \* LinuxProfile.Build: listed files not yet visited
    total_profiles, \* LinuxProfile.Build's local total_profiles
    new_profiles,   \* LinuxProfile.Build's local new_profiles
    store0,         \* history: the repository when this Build() began
    calls,          \* history: what this Build() has called, in order
    prev,           \* history: how the previous Build() of this plugin ended
    builds,         \* the number of Build() calls begun
    config_file,    \* ManageRepository.config_file, as config.yaml lists it
    order,          \* the order in which config_file (a dict) yields its items
    config0,        \* history: config_file as __init__ loaded it
    build_targets,  \* ManageRepository.build_targets
    force_build_index, \* ManageRepository.force_build_index
    rpc,            \* where render() is
    target,         \* render's position in config_file
    built,          \* history: the targets render() has called Build() for
    writes,         \* history: what this render() has stored, and for which
                    \* target
    renders         \* the number of render() calls begun

vars == <<store, now, writes, handler, bpc, error, changed_files, guid_list, i,
          profile_data, pending, total_profiles, new_profiles, store0, calls,
          prev, builds, config_file, order, config0, build_targets,
          force_build_index, rpc, target, built, renders>>

repo == <<store, now, writes>>

buildLocals == <<changed_files, guid_list, i, profile_data, pending,
                 total_profiles, new_profiles>>

renderVars == <<config_file, order, config0, build_targets,
                force_build_index, rpc, target, built, renders>>

(***************************************************************************)
(* The repository (io_manager.DirectoryIOManager).                         *)
(***************************************************************************)
\* repository.Metadata(path): the metadata of a stored path, None without one
Metadata(path) ==
    IF path \in DOMAIN store
    THEN [LastModified |-> store[path].LastModified]
    ELSE None

\* Whether repository.GetData(path) succeeds: the path names a stored file
\* (and, unless raw, one the decoder reads)
CanGetData(path, raw) ==
    /\ path \in DOMAIN store
    /\ raw \/ Decodable(store[path].data)

\* repository.GetData(path, raw=raw)
GetData(path, raw) ==
    IF raw THEN store[path].data ELSE Decoder(store[path].data)

\* The repository after StoreData(path, data, raw=raw) at time t
Stored(path, data, raw, t) ==
    [p \in DOMAIN store \cup {path} |->
        IF p = path
        THEN [data |-> IF raw THEN data ELSE Encoder(data),
              LastModified |-> t]
        ELSE store[p]]

\* repository.StoreData(path, data, raw=raw): the write is stamped with the
\* clock, which may have advanced since it was last read
StoreData(path, data, raw) ==
    \E t \in {now, now + 1} :
        /\ t <= MaxClock
        /\ now' = t
        /\ store' = Stored(path, data, raw, t)
        /\ writes' = IF rpc = "off" THEN writes
                     ELSE [p \in DOMAIN writes \cup {path} |->
                              IF p = path
                              THEN [target |-> target,
                                    entry |-> Stored(path, data, raw, t)[path]]
                              ELSE writes[p]]

\* repository.ListFiles()
ListFiles == DOMAIN store

(***************************************************************************)
(* The external plugins.                                                   *)
(***************************************************************************)
\* fetch_pdb: the PDB file the symbol server holds for a GUID
FetchedPdb(guid) == [pdb |-> guid]

\* parse_pdb: the profile of a PDB file
ParsedPdb(data) == [profile |-> data.pdb]

\* convert_profile.ConvertProfile: the profile of a raw Linux archive, None
\* for an archive it cannot convert
ConvertProfile(data) ==
    IF data.convertible THEN [profile |-> data.zip] ELSE NoProfile

\* build_index(spec): the index of the repository as it stands
BuiltIndex(spec) == [spec |-> spec, profiles |-> DOMAIN store]

\* One entry of the history of calls
Call(op, path) == [op |-> op, path |-> path]

Stores(cs) == {k \in 1..Len(cs) : cs[k].op = "StoreData"}

CallsOf(cs, op) == {cs[k].path : k \in {j \in 1..Len(cs) : cs[j].op = op}}

(***************************************************************************)
(* Build(): what every plugin shares.                                      *)
(***************************************************************************)
InProgress ==
    {"A_start", "A_check", "A_raw", "A_parse", "A_store", "A_index_trigger",
     "B_build", "C_loop", "C_index_trigger", "D_start", "D_scan",
     "D_index_trigger", "index"}

\* The first step of each class's Build
StartOf(cls) ==
    CASE cls = "WindowsGUIDProfile" -> "A_start"
      [] cls = "CopyAndTransform" -> "B_build"
      [] cls = "OSXProfile" -> "C_loop"
      [] cls = "LinuxProfile" -> "D_start"

\* handler.Build(renderer) is called: the locals are fresh
BeginBuild(h) ==
    /\ bpc' = StartOf(h.cls)
    /\ error' = "none"
    /\ changed_files' = FALSE
    /\ guid_list' = <<>>
    /\ i' = 1
    /\ profile_data' = NoProfile
    /\ pending' = {}
    /\ total_profiles' = 0
    /\ new_profiles' = 0
    /\ store0' = store
    /\ calls' = <<>>
    /\ prev' = bpc
    /\ builds' = builds + 1

\* An exception leaves Build()
Raise(e) ==
    /\ bpc' = "raised"
    /\ error' = e

\* A mutation: no target counts as built, every one is built again
AlreadyBuiltNever(path) == FALSE

\* if repository.Metadata(<target>): the target exists, it is not built again
AlreadyBuilt(path) == Truthy(Metadata(path))

\* A mutation: force_build_index counts only once an index is configured
ShouldBuildIndexForceNeedsChange(changed, index, force) ==
    changed /\ (Truthy(index) \/ force)

\* changed_files and self.args.index or self.args.force_build_index
ShouldBuildIndex(changed, index, force) ==
    (changed /\ Truthy(index)) \/ force

\* A mutation: OSXProfile's trigger with the force flag of the other plugins
ShouldBuildIndexOSXForced(changed, index, force) ==
    (changed /\ Truthy(index)) \/ force

\* OSXProfile: changed_files and self.args.index (the force flag is not read)
ShouldBuildIndexOSX(changed, index, force) ==
    changed /\ Truthy(index)

\* RepositoryPlugin.BuildIndex
BuildIndex ==
    /\ bpc = "index"
    /\ IF CanGetData(handler.index, FALSE)
       THEN /\ StoreData(IndexPath(handler.profile_name),
                         BuiltIndex(GetData(handler.index, FALSE)), FALSE)
            /\ calls' = calls \o <<Call("BuildIndex", handler.index),
                                   Call("StoreData",
                                        IndexPath(handler.profile_name))>>
            /\ bpc' = "done"
            /\ UNCHANGED error
       ELSE /\ Raise("GetDataFailed")
            /\ calls' = Append(calls, Call("BuildIndex", handler.index))
            /\ UNCHANGED repo
    /\ UNCHANGED <<handler, buildLocals, store0, prev, builds, renderVars>>

(***************************************************************************)
(* WindowsGUIDProfile.                                                     *)
(***************************************************************************)
RECURSIVE GuidPairsOf(_, _)
GuidPairsOf(guid_file, names) ==
    IF names = {} THEN <<>>
    ELSE LET pdb_filename == CHOOSE n \in names : TRUE
         IN  [k \in 1..Len(guid_file[pdb_filename]) |->
                 [pdb_filename |-> pdb_filename,
                  guid |-> guid_file[pdb_filename][k]]]
             \o GuidPairsOf(guid_file, names \ {pdb_filename})

\* for pdb_filename, guids in guid_file.iteritems(): for guid in guids
GuidPairs(guid_file) == GuidPairsOf(guid_file, DOMAIN guid_file)

\* Build, to the loop: the guid file is read
A_Start ==
    /\ bpc = "A_start"
    /\ IF CanGetData(handler.guids, FALSE)
       THEN /\ guid_list' = GuidPairs(GetData(handler.guids, FALSE))
            /\ bpc' = "A_check"
            /\ UNCHANGED error
       ELSE /\ Raise("GetDataFailed")
            /\ UNCHANGED guid_list
    /\ UNCHANGED <<repo, handler, changed_files, i, profile_data,
                   pending, total_profiles, new_profiles, store0, calls, prev,
                   builds, renderVars>>

\* The head of the loop: the next guid and the check of its profile
A_Check ==
    /\ bpc = "A_check"
    /\ IF i > Len(guid_list)
       THEN /\ bpc' = "A_index_trigger"
            /\ UNCHANGED <<i, changed_files>>
       ELSE IF AlreadyBuilt(GuidProfilePath(handler.profile_name,
                                            guid_list[i].guid))
       THEN /\ i' = i + 1
            /\ UNCHANGED <<bpc, changed_files>>
       ELSE /\ changed_files' = TRUE
            /\ bpc' = "A_raw"
            /\ UNCHANGED i
    /\ UNCHANGED <<repo, handler, error, guid_list, profile_data,
                   pending, total_profiles, new_profiles, store0, calls, prev,
                   builds, renderVars>>

\* A mutation: the pdb file is fetched whether the repository has it or not
NeedsFetchAlways(guid) == TRUE

\* Do we need to fetch the pdb file?
NeedsFetch(guid) == ~ Truthy(Metadata(RawPdbPath(guid)))

\* FetchPDB when the pdb file is needed; the symbol server may fail to give it
A_Raw ==
    /\ bpc = "A_raw"
    /\ LET guid == guid_list[i].guid
       IN  IF NeedsFetch(guid)
           THEN \E fetched \in BOOLEAN :
                   IF fetched
                   THEN /\ StoreData(RawPdbPath(guid), FetchedPdb(guid), TRUE)
                        /\ calls' = calls \o <<Call("Fetch", guid),
                                               Call("StoreData",
                                                    RawPdbPath(guid))>>
                        /\ bpc' = "A_parse"
                        /\ UNCHANGED error
                   ELSE /\ Raise("FetchFailed")
                        /\ calls' = Append(calls, Call("Fetch", guid))
                        /\ UNCHANGED repo
           ELSE /\ bpc' = "A_parse"
                /\ UNCHANGED <<repo, error, calls>>
    /\ UNCHANGED <<handler, buildLocals, store0, prev, builds, renderVars>>

\* ParsePDB, to the StoreData: the raw file is read, parsed and transformed
A_Parse ==
    /\ bpc = "A_parse"
    /\ LET guid == guid_list[i].guid
           data == GetData(RawPdbPath(guid), TRUE)
           transformed == TransformProfile(ParsedPdb(data), handler.transforms)
       IN  /\ calls' = calls \o <<Call("Convert", guid),
                                  Call("Transform", guid)>>
           /\ IF transformed.raised
              THEN /\ Raise("UnknownTransform")
                   /\ UNCHANGED profile_data
              ELSE /\ profile_data' = transformed.profile
                   /\ bpc' = "A_store"
                   /\ UNCHANGED error
    /\ UNCHANGED <<repo, handler, changed_files, guid_list, i, pending,
                   total_profiles, new_profiles, store0, prev, builds,
                   renderVars>>

\* ParsePDB's StoreData of the profile, and on to the next guid
A_Store ==
    /\ bpc = "A_store"
    /\ LET path == GuidProfilePath(handler.profile_name, guid_list[i].guid)
       IN  /\ StoreData(path, profile_data, FALSE)
           /\ calls' = Append(calls, Call("StoreData", path))
    /\ profile_data' = NoProfile
    /\ i' = i + 1
    /\ bpc' = "A_check"
    /\ UNCHANGED <<handler, error, changed_files, guid_list, pending,
                   total_profiles, new_profiles, store0, prev, builds,
                   renderVars>>

\* After the loop: is the index built?
A_IndexTrigger ==
    /\ bpc = "A_index_trigger"
    /\ bpc' = IF ShouldBuildIndex(changed_files, handler.index,
                                  handler.force_build_index)
              THEN "index" ELSE "done"
    /\ UNCHANGED <<repo, handler, error, buildLocals, store0, calls,
                   prev, builds, renderVars>>

(***************************************************************************)
(* CopyAndTransform.                                                       *)
(***************************************************************************)
\* A mutation: only a missing profile is built, as in the other plugins
IsStaleWhenMissing(profile_metadata, source_metadata) ==
    ~ Truthy(profile_metadata)

\* A mutation: a source as old as the profile rebuilds it too
IsStaleOrEqual(profile_metadata, source_metadata) ==
    \/ ~ Truthy(profile_metadata)
    \/ source_metadata.LastModified >= profile_metadata.LastModified

\* not profile_metadata or
\*     source_metadata["LastModified"] > profile_metadata["LastModified"]
IsStale(profile_metadata, source_metadata) ==
    \/ ~ Truthy(profile_metadata)
    \/ source_metadata.LastModified > profile_metadata.LastModified

\* A mutation: CopyAndTransform ends with the index step of WindowsGUIDProfile
\* and LinuxProfile
B_BuildThenIndex ==
    /\ bpc = "B_build"
    /\ LET profile_metadata == Metadata(handler.profile_name)
           source_metadata == Metadata(handler.source)
       IN  IF Truthy(profile_metadata) /\ ~ Truthy(source_metadata)
           THEN /\ Raise("TypeError")
                /\ UNCHANGED <<repo, calls>>
           ELSE IF ~ IsStale(profile_metadata, source_metadata)
           THEN /\ bpc' = IF ShouldBuildIndex(FALSE, handler.index,
                                              handler.force_build_index)
                          THEN "index" ELSE "done"
                /\ UNCHANGED <<repo, calls, error>>
           ELSE IF ~ CanGetData(handler.source, FALSE)
           THEN /\ Raise("GetDataFailed")
                /\ calls' = Append(calls, Call("GetData", handler.source))
                /\ UNCHANGED repo
           ELSE LET transformed ==
                        TransformProfile(GetData(handler.source, FALSE),
                                         handler.transforms)
                IN  IF transformed.raised
                    THEN /\ Raise("UnknownTransform")
                         /\ calls' = calls \o
                               <<Call("GetData", handler.source),
                                 Call("Transform", handler.source)>>
                         /\ UNCHANGED repo
                    ELSE /\ StoreData(handler.profile_name,
                                      PPrint(transformed.profile), TRUE)
                         /\ calls' = calls \o
                               <<Call("GetData", handler.source),
                                 Call("Transform", handler.source),
                                 Call("StoreData", handler.profile_name)>>
                         /\ bpc' = IF ShouldBuildIndex(
                                          TRUE, handler.index,
                                          handler.force_build_index)
                                   THEN "index" ELSE "done"
                         /\ UNCHANGED error
    /\ UNCHANGED <<handler, buildLocals, store0, prev, builds, renderVars>>

\* Build, whole.  Subscripting the metadata of a source that is not there
\* (None) raises TypeError.
B_Build ==
    /\ bpc = "B_build"
    /\ LET profile_metadata == Metadata(handler.profile_name)
           source_metadata == Metadata(handler.source)
       IN  IF Truthy(profile_metadata) /\ ~ Truthy(source_metadata)
           THEN /\ Raise("TypeError")
                /\ UNCHANGED <<repo, calls>>
           ELSE IF ~ IsStale(profile_metadata, source_metadata)
           THEN /\ bpc' = "done"
                /\ UNCHANGED <<repo, calls, error>>
           ELSE IF ~ CanGetData(handler.source, FALSE)
           THEN /\ Raise("GetDataFailed")
                /\ calls' = Append(calls, Call("GetData", handler.source))
                /\ UNCHANGED repo
           ELSE LET transformed ==
                        TransformProfile(GetData(handler.source, FALSE),
                                         handler.transforms)
                IN  IF transformed.raised
                    THEN /\ Raise("UnknownTransform")
                         /\ calls' = calls \o
                               <<Call("GetData", handler.source),
                                 Call("Transform", handler.source)>>
                         /\ UNCHANGED repo
                    ELSE /\ StoreData(handler.profile_name,
                                      PPrint(transformed.profile), TRUE)
                         /\ calls' = calls \o
                               <<Call("GetData", handler.source),
                                 Call("Transform", handler.source),
                                 Call("StoreData", handler.profile_name)>>
                         /\ bpc' = "done"
                         /\ UNCHANGED error
    /\ UNCHANGED <<handler, buildLocals, store0, prev, builds, renderVars>>

(***************************************************************************)
(* OSXProfile.                                                             *)
(***************************************************************************)
\* One turn of the loop over self.args.sources
C_Loop ==
    /\ bpc = "C_loop"
    /\ IF i > Len(handler.sources)
       THEN /\ bpc' = "C_index_trigger"
            /\ UNCHANGED <<repo, error, calls, i, changed_files>>
       ELSE LET source == handler.sources[i]
                profile_name == OSXProfileName(source)
            IN  IF AlreadyBuilt(profile_name)
                THEN /\ i' = i + 1
                     /\ UNCHANGED <<repo, error, calls, bpc,
                                    changed_files>>
                ELSE IF ~ CanGetData(source, FALSE)
                THEN /\ Raise("GetDataFailed")
                     /\ calls' = Append(calls, Call("GetData", source))
                     /\ UNCHANGED <<repo, i, changed_files>>
                ELSE LET transformed ==
                             TransformProfile(GetData(source, FALSE),
                                              handler.transforms)
                     IN  IF transformed.raised
                         THEN /\ Raise("UnknownTransform")
                              /\ calls' = calls \o
                                    <<Call("GetData", source),
                                      Call("Transform", source)>>
                              /\ UNCHANGED <<repo, i, changed_files>>
                         ELSE /\ StoreData(profile_name,
                                           PPrint(transformed.profile), TRUE)
                              /\ calls' = calls \o
                                    <<Call("GetData", source),
                                      Call("Transform", source),
                                      Call("StoreData", profile_name)>>
                              /\ changed_files' = TRUE
                              /\ i' = i + 1
                              /\ UNCHANGED <<bpc, error>>
    /\ UNCHANGED <<handler, guid_list, profile_data, pending, total_profiles,
                   new_profiles, store0, prev, builds, renderVars>>

\* After the loop: is the index built?
C_IndexTrigger ==
    /\ bpc = "C_index_trigger"
    /\ bpc' = IF ShouldBuildIndexOSX(changed_files, handler.index,
                                     handler.force_build_index)
              THEN "index" ELSE "done"
    /\ UNCHANGED <<repo, handler, error, buildLocals, store0, calls,
                   prev, builds, renderVars>>

(***************************************************************************)
(* LinuxProfile.                                                           *)
(***************************************************************************)
\* Build, to the loop: the converter, the previous index, the listing
D_Start ==
    /\ bpc = "D_start"
    /\ pending' = ListFiles
    /\ bpc' = "D_scan"
    /\ UNCHANGED <<repo, handler, error, changed_files, guid_list, i,
                   profile_data, total_profiles, new_profiles, store0, calls,
                   prev, builds, renderVars>>

\* The loop over repository.ListFiles(), to its next raw Linux profile and
\* through it.  The listing comes in the file system's order: any raw profile
\* not yet visited may be the next; the files that are none are passed over.
D_Scan ==
    /\ bpc = "D_scan"
    /\ IF \A f \in pending : ~ IsRawLinuxProfile(f)
       THEN /\ bpc' = "D_index_trigger"
            /\ pending' = {}
            /\ UNCHANGED <<repo, error, calls, changed_files, total_profiles,
                           new_profiles>>
       ELSE \E source_profile \in {f \in pending : IsRawLinuxProfile(f)} :
            LET profile_id == LinuxProfileId(source_profile)
                profile == ConvertProfile(GetData(source_profile, TRUE))
            IN  /\ pending' = pending \ {source_profile}
                /\ total_profiles' = total_profiles + 1
                /\ IF AlreadyBuilt(profile_id)
                   THEN UNCHANGED <<repo, error, calls, bpc, changed_files,
                                    new_profiles>>
                   ELSE IF profile = NoProfile
                   \* the skip message reads profile_path, a name Build
                   \* never binds: NameError
                   THEN /\ calls' = Append(calls,
                                           Call("Convert", source_profile))
                        /\ Raise("NameError")
                        /\ UNCHANGED <<repo, changed_files, new_profiles>>
                   ELSE /\ StoreData(profile_id, profile, FALSE)
                        /\ calls' = calls \o
                              <<Call("Convert", source_profile),
                                Call("StoreData", profile_id)>>
                        /\ new_profiles' = new_profiles + 1
                        /\ changed_files' = TRUE
                        /\ UNCHANGED <<bpc, error>>
    /\ UNCHANGED <<handler, guid_list, i, profile_data, store0, prev, builds,
                   renderVars>>

\* Now rebuild the index
D_IndexTrigger ==
    /\ bpc = "D_index_trigger"
    /\ bpc' = IF ShouldBuildIndex(changed_files, handler.index,
                                  handler.force_build_index)
              THEN "index" ELSE "done"
    /\ UNCHANGED <<repo, handler, error, buildLocals, store0, calls,
                   prev, builds, renderVars>>

\* Any step of Build()
BuildStep ==
    \/ A_Start \/ A_Check \/ A_Raw \/ A_Parse \/ A_Store \/ A_IndexTrigger
    \/ B_Build
    \/ C_Loop \/ C_IndexTrigger
    \/ D_Start \/ D_Scan \/ D_IndexTrigger
    \/ BuildIndex

(***************************************************************************)
(* A plugin instance on its own: Build() is called, and called again; the  *)
(* process may be killed between any two steps of a Build().               *)
(***************************************************************************)
Build ==
    /\ rpc = "off"
    /\ bpc \notin InProgress
    /\ builds < MaxBuilds
    /\ BeginBuild(handler)
    /\ UNCHANGED <<repo, handler, renderVars>>

Interrupt ==
    /\ rpc = "off"
    /\ bpc \in InProgress
    /\ bpc' = "interrupted"
    /\ changed_files' = FALSE
    /\ guid_list' = <<>>
    /\ i' = 1
    /\ profile_data' = NoProfile
    /\ pending' = {}
    /\ total_profiles' = 0
    /\ new_profiles' = 0
    /\ UNCHANGED <<repo, handler, error, store0, calls, prev, builds,
                   renderVars>>

(***************************************************************************)
(* The repositories and plugins the model starts from.                     *)
(***************************************************************************)
P_W == <<"W">>

P_guids == <<"g">>

P_index == <<"i">>

G1 == <<"1">>

G2 == <<"2">>

P_B == <<"B">>

P_source == <<"s">>

P_OSX == <<"O", "S", "X">>

S_ax == <<"a", "/", "x">>

S_bx == <<"b", "/", "x">>

S_y == <<"y">>

P_Linux == <<"L", "i", "n", "u", "x">>

Z_a == <<"s", "r", "c", "/", "L", "i", "n", "u", "x", "/", "a", ".", "z", "i", "p">>

Z_api == <<"s", "r", "c", "/", "L", "i", "n", "u", "x", "/", "a", "p", "i", ".", "z", "i", "p">>

Z_b == <<"s", "r", "c", "/", "L", "i", "n", "u", "x", "/", "b", ".", "z", "i", "p">>

Z_other == <<"s", "r", "c", "/", "o", ".", "z", "i", "p">>

\* The transforms a target may configure: none, merge, one that is not
\* known, both
BothTransforms == [merge |-> [a |-> 1], bad |-> [a |-> 1]]

TransformSpecs ==
    {<<>>, [merge |-> [a |-> 1]], [bad |-> [a |-> 1]], BothTransforms}

\* The index a target may configure: none, or the path of the index spec
IndexSpecs == {None, P_index}

File(path, data, t) == [path |-> path, data |-> data, LastModified |-> t]

\* The repository that holds the files fs
RepositoryOf(fs) ==
    [p \in {f.path : f \in fs} |->
        LET f == CHOOSE g \in fs : g.path = p
        IN  [data |-> f.data, LastModified |-> f.LastModified]]

\* The files present at time t > 0, none at time 0
At(t, path, data) == IF t = 0 THEN {} ELSE {File(path, data, t)}

Range(seq) == {seq[k] : k \in 1..Len(seq)}

\* The lists over S of 1 to MaxList elements that start with first
ListsFrom(first, S) ==
    UNION {{<<first>> \o rest : rest \in [1..n -> S]} : n \in 0..(MaxList - 1)}

Plugin(cls, profile_name, force, transforms, index, guids, source, sources) ==
    [cls |-> cls, profile_name |-> profile_name, force_build_index |-> force,
     transforms |-> transforms, index |-> index, guids |-> guids,
     source |-> source, sources |-> sources]

IndexSpecFile == File(P_index, PPrint([index_spec |-> TRUE]), 1)

\* WindowsGUIDProfile: the raw file of each listed guid missing or of any
\* time, its profile missing or old, and one repository without the guid file
RepositoriesA(guids) ==
    {RepositoryOf(
        {IndexSpecFile, File(P_guids, PPrint([ntkrnlmp |-> guids]), 1)}
        \cup UNION {At(raw[g], RawPdbPath(g), FetchedPdb(g))
                    \cup At(done[g], GuidProfilePath(P_W, g),
                            PPrint(ParsedPdb(FetchedPdb(g))))
                    : g \in Range(guids)}) :
        raw \in [Range(guids) -> 0..MaxInitTime],
        done \in [Range(guids) -> {0, 1}]}
    \cup {RepositoryOf({IndexSpecFile})}

ScenariosA ==
    UNION {
        {[handler |-> Plugin("WindowsGUIDProfile", P_W, force, transforms,
                             index, P_guids, None, <<>>),
          store |-> repository] :
            force \in BOOLEAN, transforms \in TransformSpecs \ {BothTransforms},
            index \in IndexSpecs, repository \in RepositoriesA(guids)} :
        guids \in ListsFrom(G1, {G1, G2})}

\* The documents a source may hold: one without "$MERGE", one with
SourceDocuments ==
    {[x |-> 2], ("x" :> 2) @@ ("$MERGE" :> [b |-> 2])}

\* CopyAndTransform: every pair of times of the source and the profile
RepositoriesB ==
    {RepositoryOf({IndexSpecFile}
                  \cup At(ts, P_source, PPrint(document))
                  \cup At(tp, P_B, PPrint([x |-> 1]))) :
        ts \in 0..MaxInitTime, tp \in 0..MaxInitTime,
        document \in SourceDocuments}

ScenariosB ==
    {[handler |-> Plugin("CopyAndTransform", P_B, force, transforms, index,
                         None, P_source, <<>>),
      store |-> repository] :
        force \in BOOLEAN, transforms \in TransformSpecs,
        index \in IndexSpecs, repository \in RepositoriesB}

\* OSXProfile: the sources all of one time (or all missing), the profiles
\* OSX/x and OSX/y missing or old
RepositoriesC ==
    {RepositoryOf({IndexSpecFile}
                  \cup UNION {At(ts, s, PPrint([x |-> 2])) :
                              s \in {S_ax, S_bx, S_y}}
                  \cup At(tx, OSXProfileName(S_ax), PPrint([x |-> 1]))
                  \cup At(ty, OSXProfileName(S_y), PPrint([x |-> 1]))) :
        ts \in 0..MaxInitTime, tx \in {0, 1}, ty \in {0, 1}}

ScenariosC ==
    UNION {
        {[handler |-> Plugin("OSXProfile", P_OSX, force, transforms, index,
                             None, None, sources),
          store |-> repository] :
            force \in BOOLEAN, transforms \in TransformSpecs \ {BothTransforms},
            index \in IndexSpecs, repository \in RepositoriesC} :
        sources \in ListsFrom(S_ax, {S_ax, S_bx, S_y})}

\* A raw Linux archive, which the converter can convert or cannot
Archive(path, convertible) == [zip |-> path, convertible |-> convertible]

\* An archive's file: not there, convertible, or not convertible
ArchiveFiles(path, t) ==
    {{}} \cup {{File(path, Archive(path, c), t)} : c \in BOOLEAN}

\* LinuxProfile: the archives a.zip, api.zip and b.zip, the profiles
\* Linux/a and Linux/b missing or old, an archive that is not under src/Linux
RepositoriesD ==
    {RepositoryOf({IndexSpecFile, File(Z_other, Archive(Z_other, TRUE), 1)}
                  \cup a \cup api \cup b
                  \cup At(ta, LinuxProfileId(Z_a),
                          PPrint([profile |-> Z_a]))
                  \cup At(tb, LinuxProfileId(Z_b),
                          PPrint([profile |-> Z_b]))) :
        a \in ArchiveFiles(Z_a, MaxInitTime),
        api \in ArchiveFiles(Z_api, MaxInitTime),
        b \in ArchiveFiles(Z_b, MaxInitTime),
        ta \in {0, 1}, tb \in {0, 1}}

ScenariosD ==
    {[handler |-> Plugin("LinuxProfile", P_Linux, force, transforms, index,
                         None, None, <<>>),
      store |-> repository] :
        force \in BOOLEAN, transforms \in {<<>>, [bad |-> [a |-> 1]]},
        index \in IndexSpecs, repository \in RepositoriesD}

Scenarios == ScenariosA \cup ScenariosB \cup ScenariosC \cup ScenariosD

NoPlugin == Plugin("", None, FALSE, <<>>, None, None, None, <<>>)

\* Nothing has been built
InitBuild ==
    /\ now = MaxInitTime
    /\ bpc = "idle"
    /\ error = "none"
    /\ changed_files = FALSE
    /\ guid_list = <<>>
    /\ i = 1
    /\ profile_data = NoProfile
    /\ pending = {}
    /\ total_profiles = 0
    /\ new_profiles = 0
    /\ store0 = store
    /\ calls = <<>>
    /\ prev = "none"
    /\ builds = 0

Init ==
    /\ \E scenario \in Scenarios :
          /\ handler = scenario.handler
          /\ store = scenario.store
    /\ InitBuild
    /\ config_file = <<>>
    /\ order = <<>>
    /\ config0 = <<>>
    /\ build_targets = {}
    /\ force_build_index = handler.force_build_index
    /\ rpc = "off"
    /\ target = 0
    /\ built = <<>>
    /\ writes = <<>>
    /\ renders = 0

Next == Build \/ BuildStep \/ Interrupt

Spec == Init /\ [][Next]_vars

(***************************************************************************)
(* ManageRepository: render() walks config.yaml and builds each target.    *)
(***************************************************************************)
\* RepositoryPlugin.classes: the plugins the registry knows by name
Classes ==
    {"WindowsGUIDProfile", "CopyAndTransform", "OSXProfile", "LinuxProfile"}

\* No "type" among the kwargs of a target: what kwargs.pop("type", None)
\* gives then is falsy
NoType == ""

\* handler_cls(session=..., repository=..., profile_name=profile_name,
\*             force_build_index=self.force_build_index, **kwargs)
NewHandler(handler_type, profile_name, kwargs) ==
    Plugin(handler_type, profile_name, force_build_index, kwargs.transforms,
           kwargs.index, kwargs.guids, kwargs.source, kwargs.sources)

\* A mutation: the error of a Build() is caught and render goes on
AfterBuildGoOn(outcome) == "loop"

\* handler.Build(renderer) is not guarded: what it raises leaves render()
AfterBuild(outcome) == IF outcome = "raised" THEN "raised" ELSE "loop"

\* self.config_file.iteritems(): the items of the dict, in the dict's order
iteritems(d, o) == [k \in 1..Len(d) |-> d[o[k]]]

\* manage_repo is run: render() is called
Render ==
    /\ rpc \in {"idle", "done", "raised"}
    /\ renders < MaxRenders
    /\ renders' = renders + 1
    /\ rpc' = "loop"
    /\ target' = 1
    /\ built' = <<>>
    /\ writes' = <<>>
    /\ error' = "none"
    /\ UNCHANGED <<store, now, handler, bpc, buildLocals, store0, calls, prev,
                   builds, config_file, order, config0, build_targets,
                   force_build_index>>

\* A mutation: the list of targets to build is not looked at
SkippedNever(profile_name) == FALSE

\* if self.build_targets and profile_name not in self.build_targets: continue
Skipped(profile_name) ==
    build_targets # {} /\ profile_name \notin build_targets

\* A mutation: the type is looked up without the test for a missing one
HandlerErrorLookupOnly(handler_type) ==
    IF handler_type \notin Classes THEN "UnknownHandler" ELSE "none"

\* if not handler_type: raise RuntimeError("Unspecified repository handler
\* ..."); if handler_cls is None: raise RuntimeError("Unknown repository
\* handler ...")
HandlerError(handler_type) ==
    IF handler_type = NoType THEN "UnspecifiedHandler"
    ELSE IF handler_type \notin Classes THEN "UnknownHandler"
    ELSE "none"

\* One turn of the loop over config_file, to the call of Build
RenderTarget ==
    /\ rpc = "loop"
    /\ IF target > Len(config_file)
       THEN /\ rpc' = "done"
            /\ UNCHANGED <<handler, bpc, error, buildLocals, store0, calls,
                           prev, builds, config_file, target, built>>
       ELSE LET profile_name == iteritems(config_file, order)[target].name
                kwargs == iteritems(config_file, order)[target].kwargs
                handler_type == kwargs.type
            IN  IF Skipped(profile_name)
                THEN /\ target' = target + 1
                     /\ UNCHANGED <<handler, bpc, error, buildLocals, store0,
                                    calls, prev, builds, config_file, rpc,
                                    built>>
                ELSE /\ config_file' =
                            [config_file EXCEPT
                                ![order[target]].kwargs.type = NoType]
                     /\ IF HandlerError(handler_type) # "none"
                        THEN /\ rpc' = "raised"
                             /\ error' = HandlerError(handler_type)
                             /\ UNCHANGED <<handler, bpc, buildLocals, store0,
                                            calls, prev, builds, target,
                                            built>>
                        ELSE /\ handler' = NewHandler(handler_type,
                                                      profile_name, kwargs)
                             /\ BeginBuild(handler')
                             /\ built' = Append(built, profile_name)
                             /\ rpc' = "build"
                             /\ UNCHANGED target
    /\ UNCHANGED <<repo, order, config0, build_targets, force_build_index,
                   renders>>

\* Build() is over: it returned, or it raised
RenderBuilt ==
    /\ rpc = "build"
    /\ bpc \in {"done", "raised"}
    /\ rpc' = AfterBuild(bpc)
    /\ target' = IF rpc' = "loop" THEN target + 1 ELSE target
    /\ UNCHANGED <<repo, handler, bpc, error, buildLocals, store0, calls, prev,
                   builds, config_file, order, config0, build_targets,
                   force_build_index, built, renders>>

(***************************************************************************)
(* The config.yaml files and repositories render() starts from.            *)
(***************************************************************************)
Kwargs(type, transforms, index, guids, source, sources) ==
    [type |-> type, transforms |-> transforms, index |-> index,
     guids |-> guids, source |-> source, sources |-> sources]

TargetEntry(name, kwargs) == [name |-> name, kwargs |-> kwargs]

\* The targets a config.yaml is made of: one of each plugin, a
\* CopyAndTransform with a transform that is not known, a LinuxProfile
\* without an index, a target without a type and one of a type that is not
\* registered
TargetEntries ==
    {TargetEntry(P_W, Kwargs("WindowsGUIDProfile", <<>>, P_index, P_guids,
                             None, <<>>)),
     TargetEntry(P_B, Kwargs("CopyAndTransform", [merge |-> [a |-> 1]], None,
                             None, P_source, <<>>)),
     TargetEntry(P_B, Kwargs("CopyAndTransform", [bad |-> [a |-> 1]], None,
                             None, P_source, <<>>)),
     TargetEntry(P_OSX, Kwargs("OSXProfile", <<>>, None, None, None,
                               <<S_ax>>)),
     TargetEntry(P_Linux, Kwargs("LinuxProfile", <<>>, P_index, None, None,
                                 <<>>)),
     TargetEntry(P_Linux, Kwargs("LinuxProfile", <<>>, None, None, None,
                                 <<>>)),
     TargetEntry(<<"N">>, Kwargs(NoType, <<>>, None, None, None, <<>>)),
     TargetEntry(<<"U">>, Kwargs("NoSuchPlugin", <<>>, None, None, None,
                                 <<>>))}

\* The config files: 1 to MaxTargets targets, no name twice
ConfigFiles ==
    {c \in UNION {[1..n -> TargetEntries] : n \in 1..MaxTargets} :
        \A j, k \in 1..Len(c) : j # k => c[j].name # c[k].name}

\* The repositories: the guid file, the sources, the archives a.zip and
\* b.zip, b.zip convertible or not, nothing built yet or OSX/x built
RenderRepositories ==
    {RepositoryOf(
        {IndexSpecFile,
         File(P_guids, PPrint([ntkrnlmp |-> <<G1>>]), 1),
         File(P_source, PPrint([x |-> 2]), 1),
         File(S_ax, PPrint([x |-> 2]), 1),
         File(Z_a, Archive(Z_a, TRUE), 1),
         File(Z_b, Archive(Z_b, convertible), 1)}
        \cup At(tx, OSXProfileName(S_ax), PPrint([x |-> 1]))) :
        convertible \in BOOLEAN, tx \in {0, 1}}

\* The orders a dict of n items may yield them in: the dict that
\* yaml.safe_load builds keeps them by the hash of the key, not as written
DictOrders(n) ==
    {o \in [1..n -> 1..n] : \A j, k \in 1..n : j # k => o[j] # o[k]}

InitRender ==
    /\ store \in RenderRepositories
    /\ InitBuild
    /\ handler = NoPlugin
    /\ config_file \in ConfigFiles
    /\ order \in DictOrders(Len(config_file))
    /\ config0 = config_file
    /\ build_targets \in {{}} \cup {{e.name} : e \in Range(config_file)}
    /\ force_build_index \in BOOLEAN
    /\ rpc = "idle"
    /\ target = 0
    /\ built = <<>>
    /\ writes = <<>>
    /\ renders = 0

NextRender == Render \/ RenderTarget \/ BuildStep \/ RenderBuilt

SpecRender == InitRender /\ [][NextRender]_vars

(***************************************************************************)
(* What the claims speak of.                                               *)
(***************************************************************************)
\* Build() has returned
Completed == bpc = "done"

\* Build() has raised the error e
RaisedWith(e) == bpc = "raised" /\ error = e

\* The paths this Build() has stored
StoredPaths == {calls[k].path : k \in Stores(calls)}

\* The operation op is among this Build()'s calls
Called(op) == \E k \in 1..Len(calls) : calls[k].op = op

\* The number of this Build()'s calls of op on path
TimesCalled(op, path) ==
    Cardinality({k \in 1..Len(calls) :
                    calls[k].op = op /\ calls[k].path = path})

\* The transforms name one that is not merge
HasUnknownTransform(transforms) == \E t \in DOMAIN transforms : t # "merge"

\* The guids of the guid file as it was when this Build() began
ListedGuids ==
    IF handler.guids \in DOMAIN store0
    THEN UNION {Range(Decoder(store0[handler.guids].data)[f]) :
                   f \in DOMAIN Decoder(store0[handler.guids].data)}
    ELSE {}

\* The targets of the plugin: the profiles its Build() looks for
Targets ==
    CASE handler.cls = "WindowsGUIDProfile" ->
            {GuidProfilePath(handler.profile_name, g) : g \in ListedGuids}
      [] handler.cls = "CopyAndTransform" -> {handler.profile_name}
      [] handler.cls = "OSXProfile" ->
            {OSXProfileName(s) : s \in Range(handler.sources)}
      [] handler.cls = "LinuxProfile" ->
            {LinuxProfileId(f) :
                f \in {g \in DOMAIN store0 : IsRawLinuxProfile(g)}}
      [] OTHER -> {}

\* Build() is past its loop over the guids, the sources or the listing
LoopDone ==
    \/ bpc \in {"A_index_trigger", "C_index_trigger", "D_index_trigger",
                "index", "done"}
    \/ bpc = "raised" /\ Called("BuildIndex")

C2_Resumable ==
    (handler.cls = "WindowsGUIDProfile" /\ LoopDone) =>
        /\ \A g \in CallsOf(calls, "Fetch") :
              /\ RawPdbPath(g) \notin DOMAIN store0
              /\ GuidProfilePath(handler.profile_name, g) \notin DOMAIN store0
        /\ CallsOf(calls, "Convert") =
              {g \in ListedGuids :
                  GuidProfilePath(handler.profile_name, g)
                      \notin DOMAIN store0}
        /\ \A g \in CallsOf(calls, "Convert") : TimesCalled("Convert", g) = 1
        /\ \A g \in ListedGuids :
              GuidProfilePath(handler.profile_name, g) \in DOMAIN store

\* After an interrupted Build() that fetched the raw file of a guid and no
\* more, the next Build() has converted and stored it without fetching it
C2_Witness ==
    /\ handler.cls = "WindowsGUIDProfile" /\ Completed
    /\ prev = "interrupted"
    /\ \E g \in ListedGuids :
          /\ RawPdbPath(g) \in DOMAIN store0
          /\ store0[RawPdbPath(g)].LastModified > MaxInitTime
          /\ GuidProfilePath(handler.profile_name, g) \notin DOMAIN store0
          /\ g \in CallsOf(calls, "Convert")
          /\ g \notin CallsOf(calls, "Fetch")
          /\ GuidProfilePath(handler.profile_name, g) \in StoredPaths

\* CopyAndTransform: when Build() began the profile was missing, or older
\* than the source
C3_WasStale ==
    \/ handler.profile_name \notin DOMAIN store0
    \/ store0[handler.source].LastModified
          > store0[handler.profile_name].LastModified

(***************************************************************************)
(* C3.  Freshness rule of CopyAndTransform: with the source there, Build() *)
(* reads the source, transforms it and stores the profile if and only if   *)
(* the profile had no metadata or the source's LastModified was strictly   *)
(* greater than the profile's.                                             *)
(***************************************************************************)
C3_Freshness ==
    (handler.cls = "CopyAndTransform" /\ handler.source \in DOMAIN store0) =>
        /\ bpc \in {"done", "raised"} =>
              /\ Called("GetData") <=> C3_WasStale
              /\ Called("Transform") <=> C3_WasStale
        /\ Completed =>
              /\ (handler.profile_name \in StoredPaths) <=> C3_WasStale
              /\ ~ C3_WasStale => store = store0

\* A profile older than its source has been rebuilt
C3_Witness ==
    /\ handler.cls = "CopyAndTransform" /\ Completed
    /\ handler.source \in DOMAIN store0
    /\ handler.profile_name \in DOMAIN store0
    /\ store0[handler.source].LastModified
          > store0[handler.profile_name].LastModified
    /\ handler.profile_name \in StoredPaths
    /\ store[handler.profile_name].data
          = PPrint(Decoder(store0[handler.source].data))

(***************************************************************************)
(* C4.  Existence-only staleness of WindowsGUIDProfile, OSXProfile and     *)
(* LinuxProfile: a target is built and stored only when it had no metadata *)
(* and then once, a file that was there is never written again whatever    *)
(* the times of it and of its source, and once the loop is through every   *)
(* target that was missing has been stored.                                *)
(***************************************************************************)
C4_ExistenceOnly ==
    (handler.cls \in {"WindowsGUIDProfile", "OSXProfile", "LinuxProfile"}) =>
        /\ \A p \in StoredPaths \ {IndexPath(handler.profile_name)} :
              /\ p \notin DOMAIN store0
              /\ TimesCalled("StoreData", p) = 1
        /\ \A p \in DOMAIN store0 \ {IndexPath(handler.profile_name)} :
              store[p] = store0[p]
        /\ LoopDone =>
              /\ Targets \subseteq DOMAIN store
              /\ StoredPaths \cap Targets = Targets \ DOMAIN store0

\* OSXProfile has left alone a profile older than its source and built one
\* that was missing
C4_Witness ==
    /\ handler.cls = "OSXProfile" /\ Completed
    /\ \E s \in Range(handler.sources) :
          /\ s \in DOMAIN store0
          /\ OSXProfileName(s) \in DOMAIN store0
          /\ store0[s].LastModified
                > store0[OSXProfileName(s)].LastModified
          /\ store[OSXProfileName(s)] = store0[OSXProfileName(s)]
    /\ \E s \in Range(handler.sources) :
          /\ OSXProfileName(s) \notin DOMAIN store0
          /\ OSXProfileName(s) \in StoredPaths

\* (changed_files and an index is configured) or force_build_index
C5_IndexWanted ==
    (changed_files /\ handler.index # None) \/ handler.force_build_index

(***************************************************************************)
(* C5.  Index trigger of WindowsGUIDProfile and LinuxProfile: past the     *)
(* loop, BuildIndex is entered exactly when (changed_files and an index is *)
(* configured) or force_build_index; a Build() that completes with         *)
(* force_build_index set has stored <profile_name>/index, changed or not.  *)
(***************************************************************************)
C5_IndexTrigger ==
    (handler.cls \in {"WindowsGUIDProfile", "LinuxProfile"}) =>
        /\ (bpc = "index" \/ Called("BuildIndex")) =>
              (C5_IndexWanted /\ bpc \in {"index", "done", "raised"})
        /\ (bpc = "done" \/ (RaisedWith("GetDataFailed") /\ LoopDone)) =>
              (Called("BuildIndex") <=> C5_IndexWanted)
        /\ (Completed /\ handler.force_build_index) =>
              /\ TimesCalled("BuildIndex", handler.index) = 1
              /\ IndexPath(handler.profile_name) \in StoredPaths
              /\ calls[Len(calls)] =
                    Call("StoreData", IndexPath(handler.profile_name))

\* LinuxProfile found nothing to convert and, forced, has built the index
C5_Witness ==
    /\ handler.cls = "LinuxProfile" /\ Completed
    /\ handler.force_build_index /\ ~ changed_files
    /\ StoredPaths = {IndexPath(handler.profile_name)}
    /\ store[IndexPath(handler.profile_name)].LastModified >= MaxInitTime

(***************************************************************************)
(* C6.  Index trigger of OSXProfile: BuildIndex is entered, once and after *)
(* the whole list of sources, exactly when a profile was built in this     *)
(* Build() and an index is configured; force_build_index changes nothing.  *)
(***************************************************************************)
C6_IndexTriggerOSX ==
    (handler.cls = "OSXProfile") =>
        /\ (bpc = "index" \/ Called("BuildIndex")) =>
              /\ changed_files /\ handler.index # None
              /\ i > Len(handler.sources)
              /\ StoredPaths \ {IndexPath(handler.profile_name)} # {}
        /\ Completed =>
              /\ Called("BuildIndex") <=>
                    (changed_files /\ handler.index # None)
              /\ TimesCalled("BuildIndex", handler.index) <= 1
              /\ \A k \in 1..Len(calls) :
                    calls[k].op = "BuildIndex" => k = Len(calls) - 1

\* Forced, with an index configured and nothing to build, OSXProfile has
\* completed without building the index
C6_Witness ==
    /\ handler.cls = "OSXProfile" /\ Completed
    /\ handler.force_build_index /\ handler.index # None
    /\ ~ changed_files
    /\ ~ Called("BuildIndex")
    /\ store = store0

(***************************************************************************)
(* C7.  Unsupported transform, as claimed: the Build() of a target whose   *)
(* transforms name one that is not merge never completes, for any plugin.  *)
(***************************************************************************)
C7_UnknownTransformNeverCompletes ==
    HasUnknownTransform(handler.transforms) => ~ Completed

(***************************************************************************)
(* C7, amended.  For WindowsGUIDProfile, CopyAndTransform and OSXProfile   *)
(* the transform is applied only to a profile that is being built: the     *)
(* Build() that applies transforms naming one that is not merge raises the *)
(* unknown-transform error there and stores no target; the Build() that    *)
(* finds nothing to build completes; LinuxProfile applies no transform.    *)
(***************************************************************************)
C7_UnknownTransformRaisesWhenApplied ==
    HasUnknownTransform(handler.transforms) =>
        /\ Called("Transform") => RaisedWith("UnknownTransform")
        /\ handler.cls # "LinuxProfile" => StoredPaths \cap Targets = {}
        /\ (handler.cls # "LinuxProfile" /\ LoopDone) =>
              Targets \subseteq DOMAIN store0
        /\ handler.cls = "LinuxProfile" => ~ Called("Transform")

\* CopyAndTransform has raised on transforms that name merge and another
C7_Witness ==
    /\ handler.cls = "CopyAndTransform"
    /\ handler.transforms = BothTransforms
    /\ RaisedWith("UnknownTransform")
    /\ Called("Transform")
    /\ store = store0

(***************************************************************************)
(* C8.  No store write on unsupported transform, as claimed: the Build()   *)
(* of WindowsGUIDProfile, CopyAndTransform or OSXProfile that raised the   *)
(* unknown-transform error has made no StoreData call at all.              *)
(***************************************************************************)
C8_NoStoreAtAll ==
    (handler.cls # "LinuxProfile" /\ RaisedWith("UnknownTransform")) =>
        StoredPaths = {}

(***************************************************************************)
(* C8, amended.  The Build() that has applied transforms naming one that   *)
(* is not merge has stored no target and no index; CopyAndTransform and    *)
(* OSXProfile have stored nothing, WindowsGUIDProfile at most the raw file *)
(* src/pdb/<guid>.pdb of the guid it was building, fetched because it was  *)
(* missing.                                                                *)
(***************************************************************************)
C8_NoTargetStored ==
    (/\ handler.cls # "LinuxProfile"
     /\ HasUnknownTransform(handler.transforms)
     /\ Called("Transform")) =>
        /\ handler.cls \in {"CopyAndTransform", "OSXProfile"} =>
              (StoredPaths = {} /\ store = store0)
        /\ handler.cls = "WindowsGUIDProfile" =>
              /\ StoredPaths \subseteq {RawPdbPath(guid_list[i].guid)}
              /\ StoredPaths \cap DOMAIN store0 = {}
              /\ \A p \in DOMAIN store0 : store[p] = store0[p]

\* WindowsGUIDProfile has raised on the transform after it fetched and
\* stored the raw file
C8_Witness ==
    /\ handler.cls = "WindowsGUIDProfile"
    /\ RaisedWith("UnknownTransform")
    /\ StoredPaths = {RawPdbPath(guid_list[i].guid)}
    /\ RawPdbPath(guid_list[i].guid) \in DOMAIN store

(***************************************************************************)
(* C9.  Conversion failure in LinuxProfile, as claimed: when the converter *)
(* gives nothing for an archive, Build() skips the archive and does not    *)
(* raise.                                                                  *)
(***************************************************************************)
C9_ConversionFailureSkipped ==
    (/\ handler.cls = "LinuxProfile"
     /\ \E z \in CallsOf(calls, "Convert") :
           ConvertProfile(store0[z].data) = NoProfile) =>
        bpc # "raised"

\* render() has raised at a target: Build() was called for no later target,
\* and what this run stored is in the repository
C10_Aborted ==
    /\ error # "none"
    /\ target \in 1..Len(config_file)
    /\ \A k \in 1..Len(built) :
          \E j \in 1..target : built[k] = config_file[order[j]].name
    /\ \A j \in (target + 1)..Len(config_file) :
          config_file[order[j]].name \notin Range(built)
    /\ \A p \in DOMAIN writes :
          /\ writes[p].target <= target
          /\ p \in DOMAIN store
          /\ store[p] = writes[p].entry

(***************************************************************************)
(* C10.  Fatal errors abort the whole run: what a Build() raises leaves    *)
(* render() at once, as a missing or unknown type does; when render() has  *)
(* raised, Build() has been called for no target after the failing one,    *)
(* all that was stored was stored for the failing target or one before it  *)
(* and is still in the repository, and nothing is stored until manage_repo *)
(* is run again.                                                           *)
(***************************************************************************)
C10_FatalErrorsAbortTheRun ==
    [][/\ (rpc = "build" /\ bpc = "raised") =>
              (rpc' = "raised" /\ UNCHANGED <<store, built, target, error>>)
       /\ rpc' = "raised" => C10_Aborted'
       /\ rpc = "raised" =>
              (renders' = renders + 1 /\ UNCHANGED store)]_vars

\* LinuxProfile, the first of two targets, has stored a profile and then
\* raised: render() has raised with the second target not built
C10_Witness ==
    /\ rpc = "raised"
    /\ Len(config_file) = 2 /\ target = 1
    /\ build_targets = {}
    /\ built = <<config_file[order[1]].name>>
    /\ DOMAIN writes # {}
    /\ \A p \in DOMAIN writes : store[p] = writes[p].entry

\* The target named name is one render() is to build
Selected(name) == build_targets = {} \/ name \in build_targets

\* The names of the selected targets, in the order config.yaml lists them
SelectedInManifestOrder ==
    LET IsSelected(e) == Selected(e.name)
        entries == SelectSeq(config_file, IsSelected)
    IN  [k \in 1..Len(entries) |-> entries[k].name]

(***************************************************************************)
(* C11.  Targets are processed strictly sequentially in manifest order:    *)
(* the targets render() has called Build() for are the first of the        *)
(* selected targets as config.yaml lists them, in that order; a Build() is *)
(* begun only when the one before it is over, and it begins on a           *)
(* repository that holds every write made for the earlier targets.         *)
(***************************************************************************)
C11_ManifestOrder ==
    (rpc \notin {"off", "idle"}) =>
        /\ built = SubSeq(SelectedInManifestOrder, 1, Len(built))
        /\ bpc \in InProgress => rpc = "build"
        /\ rpc = "build" =>
              \A p \in DOMAIN writes :
                  writes[p].target < target =>
                      (p \in DOMAIN store0 /\ store0[p] = writes[p].entry)

\* The names of the targets of config.yaml
ManifestNames == {config_file[k].name : k \in 1..Len(config_file)}

\* render() is at a target that build_targets leaves out
C12_AtUnselected ==
    /\ rpc = "loop"
    /\ target \in 1..Len(config_file)
    /\ ~ Selected(iteritems(config_file, order)[target].name)

(***************************************************************************)
(* C12.  Selection filter: with build_targets configured, the turn of the  *)
(* loop at a target that is not in the list goes on to the next target and *)
(* does nothing else - no plugin is made, the repository and the manifest  *)
(* entry are as they were, no error is raised, be the entry without a type *)
(* or of an unknown type; only listed targets are ever built or written    *)
(* for, and when render() returns the targets built are exactly the listed *)
(* targets of the manifest.                                                *)
(***************************************************************************)
C12_SelectionFilter ==
    [][(build_targets # {}) =>
          /\ C12_AtUnselected =>
                /\ rpc' = "loop" /\ target' = target + 1
                /\ UNCHANGED <<store, now, writes, handler, bpc, error, built,
                               builds, calls, config_file>>
          /\ Range(built') \subseteq build_targets
          /\ \A p \in DOMAIN writes' :
                iteritems(config_file, order)[writes'[p].target].name
                    \in build_targets
          /\ rpc' = "raised" =>
                Selected(iteritems(config_file, order)[target'].name)
          /\ rpc' = "done" =>
                Range(built') = build_targets \cap ManifestNames]_vars

\* render() has returned after it built the one listed target and stored a
\* file for it, the other target being without a type or of an unknown type
C12_Witness ==
    /\ rpc = "done" /\ renders = 1
    /\ Len(config_file) = 2
    /\ \E k \in 1..2 :
          /\ build_targets = {config_file[k].name}
          /\ built = <<config_file[k].name>>
          /\ config_file[3 - k].kwargs.type \notin Classes
          /\ order[1] = 3 - k
    /\ DOMAIN writes # {}

\* render() is at a target it is to build
C13_AtSelected ==
    /\ rpc = "loop"
    /\ target \in 1..Len(config_file)
    /\ Selected(iteritems(config_file, order)[target].name)

\* The type of the entry render() is at
C13_Type == iteritems(config_file, order)[target].kwargs.type

(***************************************************************************)
(* C13.  Builder-type validation: the turn of the loop at a selected       *)
(* target whose entry has no type raises the unspecified-handler error,    *)
(* and at one whose type is not a registered plugin the unknown-handler    *)
(* error; in both cases no plugin is made and Build() is not begun, so     *)
(* nothing is read from or stored in the repository for that target.  A    *)
(* type that is registered raises neither and Build() is begun.            *)
(***************************************************************************)
C13_TypeValidation ==
    [][C13_AtSelected =>
          /\ C13_Type = NoType =>
                (rpc' = "raised" /\ error' = "UnspecifiedHandler")
          /\ (C13_Type # NoType /\ C13_Type \notin Classes) =>
                (rpc' = "raised" /\ error' = "UnknownHandler")
          /\ C13_Type \notin Classes =>
                UNCHANGED <<store, now, writes, handler, bpc, calls, builds,
                            built, target>>
          /\ C13_Type \in Classes =>
                /\ rpc' = "build" /\ error' = "none"
                /\ handler'.cls = C13_Type
                /\ built' = Append(built, handler'.profile_name)]_vars

\* The first render() built its first target and raised at its second,
\* which is of a type that is not registered
C13_Witness ==
    /\ rpc = "raised" /\ error = "UnknownHandler" /\ renders = 1
    /\ target = 2
    /\ Len(built) = 1
    /\ bpc = "done"
    /\ \A p \in DOMAIN writes : writes[p].target = 1

\* The archives LinuxProfile's Build() has had converted, with success
C14_Converted ==
    {z \in CallsOf(calls, "Convert") :
        ConvertProfile(store0[z].data) # NoProfile}

(***************************************************************************)
(* C14.  LinuxProfile's scan only adds missing converted profiles: the     *)
(* converter is called, once, only for listed files that start with        *)
(* src/Linux and end with .zip and whose derived profile id had no file;   *)
(* the files stored (the index aside) are exactly the derived ids of the   *)
(* archives converted with success, each holding what the converter gave;  *)
(* changed_files is true exactly when there is one; every file that was    *)
(* there - profiles converted before, the archives themselves - is as it   *)
(* was, the index aside.                                                   *)
(***************************************************************************)
C14_ScanAddsMissingOnly ==
    (handler.cls = "LinuxProfile") =>
        /\ \A z \in CallsOf(calls, "Convert") :
              /\ z \in DOMAIN store0
              /\ startswith(z, Str_srcLinux) /\ endswith(z, Str_zip)
              /\ LinuxProfileId(z) \notin DOMAIN store0
              /\ TimesCalled("Convert", z) = 1
        /\ StoredPaths \ {IndexPath(handler.profile_name)}
              = {LinuxProfileId(z) : z \in C14_Converted}
        /\ \A p \in StoredPaths \ {IndexPath(handler.profile_name)} :
              /\ TimesCalled("StoreData", p) = 1
              /\ \E z \in C14_Converted :
                    /\ LinuxProfileId(z) = p
                    /\ store[p].data = Encoder(ConvertProfile(store0[z].data))
        /\ bpc # "interrupted" =>
              (changed_files <=> C14_Converted # {})
        /\ \A p \in DOMAIN store0 \ {IndexPath(handler.profile_name)} :
              store[p] = store0[p]

\* With Linux/b there and Linux/a not, Build() has converted a.zip alone,
\* stored Linux/a and completed with Linux/b and the archives as they were
C14_Witness ==
    /\ handler.cls = "LinuxProfile" /\ Completed
    /\ {Z_a, Z_b} \subseteq DOMAIN store0
    /\ LinuxProfileId(Z_b) \in DOMAIN store0
    /\ LinuxProfileId(Z_a) \notin DOMAIN store0
    /\ CallsOf(calls, "Convert") = {Z_a}
    /\ StoredPaths \ {IndexPath(handler.profile_name)} = {LinuxProfileId(Z_a)}
    /\ changed_files
    /\ store[LinuxProfileId(Z_b)] = store0[LinuxProfileId(Z_b)]
    /\ store[Z_a] = store0[Z_a] /\ store[Z_other] = store0[Z_other]

(***************************************************************************)
(* C15.  CopyAndTransform never triggers the index: whatever the           *)
(* repository, with force_build_index set or not and an index configured   *)
(* or not, Build() never enters BuildIndex and makes at most one StoreData *)
(* call, of the profile; <profile_name>/index and every other file are as  *)
(* they were.                                                              *)
(***************************************************************************)
C15_CopyNeverIndexes ==
    (handler.cls = "CopyAndTransform") =>
        /\ bpc # "index" /\ ~ Called("BuildIndex")
        /\ Cardinality(Stores(calls)) <= 1
        /\ StoredPaths \subseteq {handler.profile_name}
        /\ DOMAIN store \subseteq DOMAIN store0 \cup {handler.profile_name}
        /\ \A p \in DOMAIN store0 \ {handler.profile_name} :
              store[p] = store0[p]
        /\ (IndexPath(handler.profile_name) \in DOMAIN store) <=>
              (IndexPath(handler.profile_name) \in DOMAIN store0)

\* Forced and with an index configured, CopyAndTransform has built its
\* profile and completed without an index
C15_Witness ==
    /\ handler.cls = "CopyAndTransform" /\ Completed
    /\ handler.force_build_index /\ handler.index # None
    /\ StoredPaths = {handler.profile_name}
    /\ handler.profile_name \notin DOMAIN store0
    /\ handler.profile_name \in DOMAIN store
    /\ IndexPath(handler.profile_name) \notin DOMAIN store

\* The document result is the document with "$MERGE" set to args and
\* every other key as it was
C16_IsMergeOf(result, document, args) ==
    /\ DOMAIN result = DOMAIN document \cup {"$MERGE"}
    /\ result["$MERGE"] = args
    /\ \A k \in DOMAIN document \ {"$MERGE"} : result[k] = document[k]

\* What the claim says the transforms make of a document
C16_Transformed(result, document, transforms) ==
    IF DOMAIN transforms = {} THEN result = document
    ELSE C16_IsMergeOf(result, document, transforms["merge"])

\* The sources of the profile stored at path
C16_SourcesOf(path) ==
    IF handler.cls = "CopyAndTransform" THEN {handler.source}
    ELSE {s \in Range(handler.sources) : OSXProfileName(s) = path}

(***************************************************************************)
(* C16.  Merge transform result: the profile CopyAndTransform or           *)
(* OSXProfile stores under transforms that are merge with arguments A is   *)
(* the source document with "$MERGE" set to A and every other key as it    *)
(* was, whether the document had a "$MERGE" or not; under no transforms it *)
(* is the source document unchanged.                                       *)
(***************************************************************************)
C16_MergeResult ==
    (/\ handler.cls \in {"CopyAndTransform", "OSXProfile"}
     /\ DOMAIN handler.transforms \subseteq {"merge"}) =>
        \A p \in StoredPaths \cap Targets :
            \E s \in C16_SourcesOf(p) :
                /\ s \in DOMAIN store0
                /\ Decodable(store[p].data)
                /\ C16_Transformed(Decoder(store[p].data),
                                   Decoder(store0[s].data),
                                   handler.transforms)

\* CopyAndTransform has stored, under merge with arguments {"a": 1}, the
\* profile of a source that held another "$MERGE"
C16_Witness ==
    /\ handler.cls = "CopyAndTransform" /\ Completed
    /\ handler.transforms = [merge |-> [a |-> 1]]
    /\ handler.profile_name \in StoredPaths
    /\ Decoder(store0[handler.source].data)
          = ("x" :> 2) @@ ("$MERGE" :> [b |-> 2])
    /\ Decoder(store[handler.profile_name].data)
          = ("x" :> 2) @@ ("$MERGE" :> [a |-> 1])

(***************************************************************************)
(* C17.  The loaded manifest is immutable: render() leaves every entry of  *)
(* config_file, its type included, as __init__ loaded it, so that a second *)
(* render() raises the unspecified-handler error only at a target whose    *)
(* entry was loaded without a type.                                        *)
(***************************************************************************)
C17_ManifestImmutable ==
    (rpc # "off") =>
        /\ config_file = config0
        /\ (rpc = "raised" /\ error = "UnspecifiedHandler") =>
              iteritems(config0, order)[target].kwargs.type = NoType

\* The target profiles stored since the plugin was made: the files that
\* were there before are older than MaxInitTime
C18_NewArtifacts ==
    {t \in Targets \cap DOMAIN store : store[t].LastModified >= MaxInitTime}

(***************************************************************************)
(* C18.  The index is not left stale by a completed run: for               *)
(* WindowsGUIDProfile and LinuxProfile with an index configured and        *)
(* force_build_index unset, whatever Build()s were interrupted or raised   *)
(* before, once a Build() completes <profile_name>/index is there, was     *)
(* stored no earlier than any target profile stored since the plugin was   *)
(* made, and was built from a repository that held that profile.           *)
(***************************************************************************)
C18_IndexNotStale ==
    (/\ handler.cls \in {"WindowsGUIDProfile", "LinuxProfile"}
     /\ handler.index # None /\ ~ handler.force_build_index
     /\ Completed) =>
        \A t \in C18_NewArtifacts :
            /\ IndexPath(handler.profile_name) \in DOMAIN store
            /\ store[IndexPath(handler.profile_name)].LastModified
                  >= store[t].LastModified
            /\ t \in Decoder(store[IndexPath(handler.profile_name)].data)
                        .profiles

(***************************************************************************)
(* C19.  The index step is only ever entered with an index configured: in  *)
(* every Build() that render() calls, of any plugin and for every          *)
(* force_build_index, BuildIndex runs only when self.args.index is there,  *)
(* so that its GetData is never given a missing path and no Build() of a   *)
(* target without an index raises past its loop.                           *)
(***************************************************************************)
C19_IndexStepHasSpec ==
    (rpc # "off" /\ handler.cls \in Classes) =>
        /\ (bpc = "index" \/ Called("BuildIndex")) => handler.index # None
        /\ (handler.index = None /\ LoopDone) => bpc # "raised"

\* The path without its first four characters ("src/") and its last four
\* (".zip")
C20_WithoutPrefixAndSuffix(path) == SubSeq(path, 5, Len(path) - 4)

\* The raw Linux archives that were listed when Build() began
C20_Archives ==
    {z \in DOMAIN store0 :
        startswith(z, Str_srcLinux) /\ endswith(z, Str_zip)}

(***************************************************************************)
(* C20.  LinuxProfile's derivation of the profile id is stable and         *)
(* injective: the id of every archive src/Linux...zip is its path without  *)
(* the leading "src/" and the trailing ".zip", so that the profile of an   *)
(* archive is stored under that id, two archives never share an id, and    *)
(* once the scan is through every archive has its own profile - none was   *)
(* passed over because the profile of another archive was there.           *)
(***************************************************************************)
C20_ProfileIdInjective ==
    (handler.cls = "LinuxProfile") =>
        /\ \A z \in C14_Converted :
              /\ C20_WithoutPrefixAndSuffix(z) \in StoredPaths
              /\ \A y \in C20_Archives :
                    y # z => LinuxProfileId(y) # LinuxProfileId(z)
        /\ LoopDone =>
              \A z \in C20_Archives :
                  C20_WithoutPrefixAndSuffix(z) \in DOMAIN store

=============================================================================
